---- MODULE Spec2Model ----
(***************************************************************************)
(* A single-ridge landscape evolution run (src/ridge_model.py): a raster   *)
(* of elevations is diffused, flow-routed, eroded by stream power and      *)
(* uplifted once per timestep, while the erosion/deposition of the last    *)
(* timesteps is accumulated into an average-rate map.                      *)
(*                                                                         *)
(* Numbers are fixed point.  One elevation unit is 0.1 mm.  The two        *)
(* logging fields erode_dep and t_erode_dep are kept in units of           *)
(* 1/RateScaleDen of an elevation unit, so that the final multiplication   *)
(* by 0.001 is an exact division.  Diffusivity is in 1e-4 m2/yr, K_sp in   *)
(* 1e-4, the uplift rate in elevation units per year.                      *)
(***************************************************************************)
EXTENDS Integers, Sequences, FiniteSets, TLC

VARIABLES
    cfg,          \* the DEM and the settings of sections B-D (fixed during runs)
    z,            \* mg.at_node['topographic__elevation']
    erode_dep,    \* mg.at_node['erode_dep']
    t_erode_dep,  \* mg.at_node['t_erode_dep']
    receiver,     \* flow receiver of each node, as left by the last routing
    area,         \* drainage area of each node, as left by the last routing
    order,        \* nodes in decreasing elevation, as left by the last routing
    i,            \* loop index of section G
    pc,           \* position in the notebook
    run,          \* how many times section G has been started
    z_start,      \* history: elevation at the top of the current loop pass
    z_win,        \* history: elevation at the top of the pass that opens the last W passes
    dz_sum,       \* history: summed elevation change made by diffusion and erosion in logged passes
    stages,       \* history: stages executed so far in the current loop pass
    count,        \* history: how often each stage ran in the current run
    t_prev        \* history: the rate map as the previous run left it

vars == <<cfg, z, erode_dep, t_erode_dep, receiver, area, order, i, pc, run,
          z_start, z_win, dz_sum, stages, count, t_prev>>

-----------------------------------------------------------------------------
(* Bounds of the model *)

NRows == 5
NCols == 5
MaxRuns == 2
MaxElev == 2
PerturbCount == 5

-----------------------------------------------------------------------------
(* Program constants *)

total_t == 10000
dt == 10
nt == total_t \div dt
WindowStart == 900
RateScaleDen == 1000
W == 100

\* range(nt+1): the number of passes of the loop
LoopCount == nt + 1

-----------------------------------------------------------------------------
(* The grid *)

NumNodes == NRows * NCols
Nodes == 0 .. (NumNodes - 1)
RowOf(n) == n \div NCols
ColOf(n) == n % NCols

\* Top and bottom edges are set FIXED_VALUE first, then left and right edges
\* CLOSED, so the four corners end up CLOSED.
StatusAtNode(n) ==
    IF ColOf(n) = 0 \/ ColOf(n) = NCols - 1 THEN "CLOSED"
    ELSE IF RowOf(n) = 0 \/ RowOf(n) = NRows - 1 THEN "FIXED_VALUE"
    ELSE "CORE"

status == [n \in Nodes |-> StatusAtNode(n)]
core_nodes == {n \in Nodes : status[n] = "CORE"}
fixed_nodes == {n \in Nodes : status[n] = "FIXED_VALUE"}
closed_nodes == {n \in Nodes : status[n] = "CLOSED"}

Abs(x) == IF x < 0 THEN -x ELSE x

IsAdjacent(n, m) ==
    /\ n # m
    /\ Abs(RowOf(n) - RowOf(m)) <= 1
    /\ Abs(ColOf(n) - ColOf(m)) <= 1

IsDiagonal(n, m) == RowOf(n) # RowOf(m) /\ ColOf(n) # ColOf(m)

\* The up-to-8 neighbours of a node that flow may be routed to: never a CLOSED node.
ValidNeighbors == [n \in Nodes |->
    {m \in Nodes : IsAdjacent(n, m) /\ status[m] # "CLOSED"}]

\* The up-to-4 neighbours joined to a node by an active link: links that touch
\* a CLOSED node carry no flux.
ActiveLinkNeighbors == [n \in Nodes |->
    {m \in Nodes : IsAdjacent(n, m) /\ ~IsDiagonal(n, m) /\ status[m] # "CLOSED"}]

\* The same function, held as an explicit table of values.
Explicit(f) == f @@ << >>

Zeros == Explicit([n \in Nodes |-> 0])
Self == Explicit([n \in Nodes |-> n])

-----------------------------------------------------------------------------
(* LinearDiffuser: hillslope diffusion over one timestep.  The component   *)
(* is library code; what is modelled is its contract: the step is stable    *)
(* for any dt (here by sub-steps of diffusion number 1/5 followed by one    *)
(* sub-step for the remaining time), flux crosses active links only, so     *)
(* FIXED_VALUE nodes are pinned and CLOSED edges carry no flux, and only    *)
(* CORE nodes change.                                                       *)

\* Division rounding toward zero.
Quot(a, b) == IF a >= 0 THEN a \div b ELSE -((-a) \div b)

LinkTerm(zz, n, m) == IF m \in ActiveLinkNeighbors[n] THEN zz[m] - zz[n] ELSE 0

\* Sum over the four links of a CORE node of the elevation difference across the link.
SumDiff(zz, n) ==
    LinkTerm(zz, n, n - 1) + LinkTerm(zz, n, n + 1) +
    LinkTerm(zz, n, n - NCols) + LinkTerm(zz, n, n + NCols)

\* One explicit sub-step with diffusion number alpha/1000.
DiffuseSubstep(zz, alpha) ==
    Explicit([n \in Nodes |->
        IF status[n] = "CORE" THEN zz[n] + Quot(alpha * SumDiff(zz, n), 1000)
        ELSE zz[n]])

RECURSIVE DiffuseRepeat(_, _, _)
DiffuseRepeat(zz, k, alpha) ==
    IF k = 0 THEN zz
    ELSE CHOOSE r \in {DiffuseRepeat(nx, k - 1, alpha) : nx \in {DiffuseSubstep(zz, alpha)}} : TRUE

\* lin_diffuse.run_one_step(dt) for diffusivity D (1e-4 m2/yr) and spacing dx:
\* the new elevation field.
LinearDiffuser(zz, D, dx) ==
    LET num == 5 * D * dt
        den == 10000 * dx * dx
        repeats == num \div den
        rest == ((num % den) * 200) \div den
    IN  DiffuseSubstep(DiffuseRepeat(zz, repeats, 200), rest)

-----------------------------------------------------------------------------
(* FlowAccumulator: receivers and drainage areas.  Library code, modelled   *)
(* by its contract: steepest descent to the lowest strictly lower valid     *)
(* neighbour, accumulation in decreasing elevation.                         *)

\* Variant: a neighbour of equal elevation is accepted as receiver.
ReceiverOfNotStrict(zz, n) ==
    IF status[n] # "CORE" THEN n
    ELSE LET lower == {m \in ValidNeighbors[n] : zz[m] <= zz[n]}
         IN  IF lower = {} THEN n
             ELSE CHOOSE m \in lower :
                    \A k \in lower : zz[m] < zz[k] \/ (zz[m] = zz[k] /\ m <= k)

\* The receiver of a node: its lowest valid neighbour if that is strictly
\* lower than the node (ties between neighbours go to the lowest node id),
\* else the node itself.  FIXED_VALUE and CLOSED nodes are their own receiver.
ReceiverOf(zz, n) ==
    IF status[n] # "CORE" THEN n
    ELSE LET lower == {m \in ValidNeighbors[n] : zz[m] < zz[n]}
         IN  IF lower = {} THEN n
             ELSE CHOOSE m \in lower :
                    \A k \in lower : zz[m] < zz[k] \/ (zz[m] = zz[k] /\ m <= k)

Receivers(zz) == Explicit([n \in Nodes |-> ReceiverOf(zz, n)])

\* m is processed before n: higher first, ties by node id.
Before(zz, m, n) == zz[m] > zz[n] \/ (zz[m] = zz[n] /\ m < n)

OpenNodes == Nodes \ closed_nodes

\* The nodes that take part in accumulation, in decreasing elevation.
ElevationOrder(zz) ==
    LET rank == [n \in OpenNodes |->
                    Cardinality({m \in OpenNodes : Before(zz, m, n)})]
    IN  Explicit([k \in 1 .. Cardinality(OpenNodes) |->
            CHOOSE n \in OpenNodes : rank[n] = k - 1])

CellArea(n, dx) == IF status[n] = "CLOSED" THEN 0 ELSE dx * dx

RECURSIVE AccumulateFrom(_, _, _, _)
AccumulateFrom(a, rcv, ord, k) ==
    IF k > Len(ord) THEN a
    ELSE LET n == ord[k]
             r == rcv[n]
         IN  CHOOSE res \in {AccumulateFrom(nx, rcv, ord, k + 1) :
                    nx \in {IF r # n THEN [a EXCEPT ![r] = @ + a[n]] ELSE a}} : TRUE

\* Variant: the nodes are processed lowest first.
DrainageAreaLowestFirst(rcv, ord, dx) ==
    AccumulateFrom(Explicit([n \in Nodes |-> CellArea(n, dx)]), rcv,
                   [k \in 1 .. Len(ord) |-> ord[Len(ord) + 1 - k]], 1)

\* Every node in the given order adds its accumulated area to its receiver.
DrainageArea(rcv, ord, dx) ==
    AccumulateFrom(Explicit([n \in Nodes |-> CellArea(n, dx)]), rcv, ord, 1)

-----------------------------------------------------------------------------
(* FastscapeEroder: implicit stream-power erosion, m_sp = 0.5, n_sp = 1,    *)
(* threshold_sp = 0.                                                        *)

RECURSIVE SqrtSearch(_, _, _)
SqrtSearch(x, lo, hi) ==
    IF hi - lo <= 1 THEN lo
    ELSE LET mid == (lo + hi) \div 2
         IN  IF mid * mid <= x THEN SqrtSearch(x, mid, hi)
             ELSE SqrtSearch(x, lo, mid)

\* Integer square root.
Isqrt(x) == SqrtSearch(x, 0, x + 1)

\* Five times the length of the flow link from n to m.
LinkLength5(n, m, dx) == IF IsDiagonal(n, m) THEN 7 * dx ELSE 5 * dx

\* 1000 * K_sp * dt * A^0.5 / L for K_sp in 1e-4.
AlphaMilli(K, a, len5) == (K * dt * Isqrt(100 * a) * 5) \div (100 * len5)

\* The implicit update of one node given its receiver's new elevation.
ErodeNode(zz, n, rcv, ar, K, dx) ==
    LET r == rcv[n]
    IN  IF r = n \/ zz[n] <= zz[r] THEN zz[n]
        ELSE LET al == AlphaMilli(K, ar[n], LinkLength5(n, r, dx))
             IN  (zz[n] * 1000 + al * zz[r]) \div (1000 + al)

RECURSIVE ErodeFrom(_, _, _, _, _, _, _)
ErodeFrom(zz, rcv, ar, ord, K, dx, k) ==
    IF k = 0 THEN zz
    ELSE LET n == ord[k]
         IN  CHOOSE res \in {ErodeFrom(nx, rcv, ar, ord, K, dx, k - 1) :
                    nx \in {[zz EXCEPT ![n] = ErodeNode(zz, n, rcv, ar, K, dx)]}} : TRUE

\* erode.run_one_step(dt): nodes are swept from the outlets upstream, the
\* reverse of the accumulation order, with the stored flow field.
FastscapeEroder(zz, rcv, ar, ord, K, dx) ==
    ErodeFrom(zz, rcv, ar, ord, K, dx, Len(ord))

-----------------------------------------------------------------------------
(* Inputs: the DEM of section B and the settings of sections C and D.       *)

Min(a, b) == IF a < b THEN a ELSE b

\* A flat surface.
FlatDEM == Explicit([n \in Nodes |-> 0])

\* One east-west ridge with an uneven crest and flanks.
RidgeDEM == Explicit([n \in Nodes |->
    800 * Min(RowOf(n), NRows - 1 - RowOf(n)) + 90 * ((3 * RowOf(n) + 5 * ColOf(n)) % 4)])

\* A plane tilted to the south: every row is a row of exact ties.
PlaneDEM == Explicit([n \in Nodes |-> 500 * RowOf(n)])

\* D in 1e-4 m2/yr, Ksp in 1e-4, uplift_rate in elevation units per year,
\* dx in metres.
Configs ==
    { [z0 |-> FlatDEM,  D |-> 10000, Ksp |-> 0,  uplift_rate |-> 1,  dx |-> 1],
      [z0 |-> RidgeDEM, D |-> 10000, Ksp |-> 0,  uplift_rate |-> 12, dx |-> 3],
      [z0 |-> RidgeDEM, D |-> 100,   Ksp |-> 40, uplift_rate |-> 12, dx |-> 3],
      [z0 |-> PlaneDEM, D |-> 100,   Ksp |-> 40, uplift_rate |-> 0,  dx |-> 3] }

uplift_per_step == cfg.uplift_rate * dt

-----------------------------------------------------------------------------
(* Section G: the simulation block.                                         *)

\* Variant: the field is not cleared.
KeepField(f) == f

\* mg.at_node[f] -= mg.at_node[f]
ResetField(f) == Explicit([n \in Nodes |-> f[n] - f[n]])

\* Variant: the window test off by one.
InWindowFrom900(k) == k >= WindowStart

\* The test that guards the logging of a pass.
InWindow(k) == k > WindowStart

\* erode_dep -= erode_dep; erode_dep += topographic__elevation
SnapshotBefore(ed, zz) == Explicit([n \in Nodes |-> (ed[n] - ed[n]) + zz[n] * RateScaleDen])

\* Variant: the elevation is read after the uplift of the pass.
RecordAfterUplift(ed, zz) ==
    Explicit([n \in Nodes |->
        ed[n] - (IF n \in core_nodes THEN zz[n] + uplift_per_step ELSE zz[n]) * RateScaleDen])

\* erode_dep -= topographic__elevation
RecordAfter(ed, zz) == Explicit([n \in Nodes |-> ed[n] - zz[n] * RateScaleDen])

\* t_erode_dep += erode_dep
AddField(f, g) == Explicit([n \in Nodes |-> f[n] + g[n]])

\* Variant: the uplift is added to the whole field.
UpliftEveryNode(zz, up) == Explicit([n \in Nodes |-> zz[n] + up])

\* topographic__elevation[core_nodes] += uplift_per_step
UpliftField(zz, up) == Explicit([n \in Nodes |-> IF n \in core_nodes THEN zz[n] + up ELSE zz[n]])

\* t_erode_dep = t_erode_dep * 0.001
ScaleField(f) == Explicit([n \in Nodes |-> Quot(f[n], RateScaleDen)])

\* Variant: flow routing placed first in the loop body.
StageAfterRouteFirst(s) ==
    CASE s = "loop"    -> "route"
      [] s = "route"   -> "diffuse"
      [] s = "diffuse" -> "erode"
      [] s = "erode"   -> "uplift"
      [] s = "uplift"  -> "loop"

\* The order of the statements of the loop body.
StageAfter(s) ==
    CASE s = "loop"    -> "diffuse"
      [] s = "diffuse" -> "route"
      [] s = "route"   -> "erode"
      [] s = "erode"   -> "uplift"
      [] s = "uplift"  -> "loop"

NoCount == [diffuse |-> 0, route |-> 0, erode |-> 0, uplift |-> 0]

Init ==
    /\ cfg \in Configs
    /\ z = cfg.z0
    /\ erode_dep = Zeros
    /\ t_erode_dep = Zeros
    /\ receiver = Self
    /\ area = Zeros
    /\ order = << >>
    /\ i = 0
    /\ pc = "ready"
    /\ run = 0
    /\ z_start = cfg.z0
    /\ z_win = cfg.z0
    /\ dz_sum = Zeros
    /\ stages = << >>
    /\ count = NoCount
    /\ t_prev = Zeros

\* Section G is run, for the first time or again: the accumulator is cleared
\* and the loop starts at 0 on the grid as it is.
StartRun ==
    /\ pc \in {"ready", "done"}
    /\ run < MaxRuns
    /\ t_erode_dep' = ResetField(t_erode_dep)
    /\ i' = 0
    /\ pc' = "loop"
    /\ run' = run + 1
    /\ z_start' = z
    /\ z_win' = z
    /\ dz_sum' = Zeros
    /\ stages' = << >>
    /\ count' = NoCount
    /\ t_prev' = t_erode_dep
    /\ UNCHANGED <<cfg, z, erode_dep, receiver, area, order>>

\* The top of a pass: the elevation is copied into erode_dep when the pass is logged.
LoopTop ==
    /\ pc = "loop"
    /\ i < nt + 1
    /\ erode_dep' = IF InWindow(i) THEN SnapshotBefore(erode_dep, z) ELSE erode_dep
    /\ pc' = StageAfter("loop")
    /\ z_start' = z
    /\ z_win' = IF i = LoopCount - W THEN z ELSE z_win
    /\ stages' = << >>
    /\ UNCHANGED <<cfg, z, t_erode_dep, receiver, area, order, i, run, dz_sum, count, t_prev>>

Diffuse ==
    /\ pc = "diffuse"
    /\ z' = LinearDiffuser(z, cfg.D, cfg.dx)
    /\ pc' = StageAfter("diffuse")
    /\ dz_sum' = IF InWindow(i) THEN Explicit([n \in Nodes |-> dz_sum[n] + z'[n] - z[n]]) ELSE dz_sum
    /\ stages' = Append(stages, "diffuse")
    /\ count' = [count EXCEPT !.diffuse = @ + 1]
    /\ UNCHANGED <<cfg, erode_dep, t_erode_dep, receiver, area, order, i, run, z_start, z_win, t_prev>>

Route ==
    /\ pc = "route"
    /\ receiver' = Receivers(z)
    /\ order' = ElevationOrder(z)
    /\ area' = DrainageArea(receiver', order', cfg.dx)
    /\ pc' = StageAfter("route")
    /\ stages' = Append(stages, "route")
    /\ count' = [count EXCEPT !.route = @ + 1]
    /\ UNCHANGED <<cfg, z, erode_dep, t_erode_dep, i, run, z_start, z_win, dz_sum, t_prev>>

\* Erosion, then the logging of the pass: erode_dep becomes elevation before
\* minus elevation after and is added to the accumulator.
Erode ==
    /\ pc = "erode"
    /\ z' = FastscapeEroder(z, receiver, area, order, cfg.Ksp, cfg.dx)
    /\ erode_dep' = IF InWindow(i) THEN RecordAfter(erode_dep, z') ELSE erode_dep
    /\ t_erode_dep' = IF InWindow(i) THEN AddField(t_erode_dep, erode_dep') ELSE t_erode_dep
    /\ pc' = StageAfter("erode")
    /\ dz_sum' = IF InWindow(i) THEN Explicit([n \in Nodes |-> dz_sum[n] + z'[n] - z[n]]) ELSE dz_sum
    /\ stages' = Append(stages, "erode")
    /\ count' = [count EXCEPT !.erode = @ + 1]
    /\ UNCHANGED <<cfg, receiver, area, order, i, run, z_start, z_win, t_prev>>

Uplift ==
    /\ pc = "uplift"
    /\ z' = UpliftField(z, uplift_per_step)
    /\ i' = i + 1
    /\ pc' = StageAfter("uplift")
    /\ stages' = Append(stages, "uplift")
    /\ count' = [count EXCEPT !.uplift = @ + 1]
    /\ UNCHANGED <<cfg, erode_dep, t_erode_dep, receiver, area, order, run, z_start, z_win, dz_sum, t_prev>>

\* The loop is over: the accumulated total becomes a rate.
Finish ==
    /\ pc = "loop"
    /\ ~(i < nt + 1)
    /\ t_erode_dep' = ScaleField(t_erode_dep)
    /\ pc' = "done"
    /\ UNCHANGED <<cfg, z, erode_dep, receiver, area, order, i, run,
                   z_start, z_win, dz_sum, stages, count, t_prev>>

\* fr.run_one_step() raises: the exception leaves the loop, nothing is undone.
RouteFails ==
    /\ pc = "route"
    /\ pc' = "aborted"
    /\ UNCHANGED <<cfg, z, erode_dep, t_erode_dep, receiver, area, order, i, run,
                   z_start, z_win, dz_sum, stages, count, t_prev>>

\* erode.run_one_step(dt) raises: the exception leaves the loop, nothing is undone.
ErodeFails ==
    /\ pc = "erode"
    /\ pc' = "aborted"
    /\ UNCHANGED <<cfg, z, erode_dep, t_erode_dep, receiver, area, order, i, run,
                   z_start, z_win, dz_sum, stages, count, t_prev>>

Next ==
    \/ StartRun
    \/ LoopTop
    \/ Diffuse
    \/ Route
    \/ Erode
    \/ Uplift
    \/ Finish
    \/ RouteFails
    \/ ErodeFails

Spec == Init /\ [][Next]_vars

-----------------------------------------------------------------------------
(* Flow routing on its own: every assignment of elevations 0 .. MaxElev to  *)
(* the first PerturbCount CORE nodes, above a bottom edge with one low      *)
(* node, is routed once.                                                    *)

PerturbNodes ==
    {n \in core_nodes : Cardinality({m \in core_nodes : m < n}) < PerturbCount}

RouteDEM(c0, f) == Explicit([n \in Nodes |->
    IF n \in PerturbNodes THEN f[n]
    ELSE IF RowOf(n) = 0 /\ ColOf(n) = c0 THEN 0
    ELSE MaxElev + 1])

InitRoute ==
    /\ \E c0 \in 1 .. (NCols - 2) : \E f \in [PerturbNodes -> 0 .. MaxElev] :
          cfg = [z0 |-> RouteDEM(c0, f), D |-> 0, Ksp |-> 0, uplift_rate |-> 0, dx |-> 3]
    /\ z = cfg.z0
    /\ erode_dep = Zeros
    /\ t_erode_dep = Zeros
    /\ receiver = Self
    /\ area = Zeros
    /\ order = << >>
    /\ i = 0
    /\ pc = "route"
    /\ run = 1
    /\ z_start = cfg.z0
    /\ z_win = cfg.z0
    /\ dz_sum = Zeros
    /\ stages = <<"diffuse">>
    /\ count = [NoCount EXCEPT !.diffuse = 1]
    /\ t_prev = Zeros

NextRoute == Route

SpecRoute == InitRoute /\ [][NextRoute]_vars

-----------------------------------------------------------------------------
(* Properties *)

InLoop == pc \in {"loop", "diffuse", "route", "erode", "uplift"}

\* C1 as stated: in every pass the stages run in the order flow routing,
\* diffusion, fluvial erosion, uplift, and the flow field the fluvial stage
\* uses is the one computed from the elevation the pass started with.
C1_RoutingBeforeDiffusion ==
    /\ pc = "uplift" => stages = <<"route", "diffuse", "erode">>
    /\ pc = "erode" =>
          /\ receiver = Receivers(z_start)
          /\ area = DrainageArea(Receivers(z_start), ElevationOrder(z_start), cfg.dx)

\* C1 amended: in every pass the stages run in the order diffusion, flow
\* routing, fluvial erosion, uplift; flow is routed once per pass, from the
\* elevation diffusion has left, and the fluvial stage uses that flow field.
C1_RoutingAfterDiffusion ==
    /\ pc = "route" => stages = <<"diffuse">>
    /\ pc = "erode" =>
          /\ stages = <<"diffuse", "route">>
          /\ receiver = Receivers(z)
          /\ order = ElevationOrder(z)
          /\ area = DrainageArea(receiver, order, cfg.dx)
    /\ pc = "uplift" => stages = <<"diffuse", "route", "erode">>
    /\ (pc = "loop" /\ i > 0) => stages = <<"diffuse", "route", "erode", "uplift">>

\* The fluvial stage is about to run with K_sp > 0 on a flow field that
\* differs from the one the elevation at the top of the pass would give.
C1_Witness ==
    /\ pc = "erode"
    /\ cfg.Ksp > 0
    /\ receiver # Receivers(z_start)

\* C2: a run that completes has applied diffusion, fluvial erosion and
\* uplift exactly nt = total_t \div dt = 1000 times each.
C2_ExactlyNtSteps ==
    pc = "done" =>
        /\ count.diffuse = nt
        /\ count.erode = nt
        /\ count.uplift = nt

\* The scenario of C3: a flat grid, D = 1.0, K_sp = 0, dx = 1 and an uplift
\* of 0.001 per pass, in its first run.
Scenario ==
    /\ cfg.z0 = FlatDEM
    /\ cfg.D = 10000
    /\ cfg.Ksp = 0
    /\ cfg.dx = 1
    /\ cfg.uplift_rate = 1
    /\ run = 1

NextToFixed(n) == \E m \in ActiveLinkNeighbors[n] : status[m] = "FIXED_VALUE"

\* C3 as stated: in the scenario, after 5 passes every CORE node is exactly
\* 5 uplift increments above its initial elevation.
C3_ScenarioExact ==
    (Scenario /\ pc = "loop" /\ i = 5) =>
        \A n \in core_nodes : z[n] = cfg.z0[n] + 5 * uplift_per_step

\* C3 amended: in the scenario, after the first pass every CORE node is
\* exactly one uplift increment above its initial elevation; after 5 passes
\* every CORE node is at most 5 increments above it, and the CORE nodes next
\* to a FIXED_VALUE edge are strictly less than 5 increments above it.
C3_ScenarioDiffused ==
    /\ (Scenario /\ pc = "loop" /\ i = 1) =>
          \A n \in core_nodes : z[n] = cfg.z0[n] + uplift_per_step
    /\ (Scenario /\ pc = "loop" /\ i = 5) =>
          \A n \in core_nodes :
              /\ z[n] <= cfg.z0[n] + 5 * uplift_per_step
              /\ NextToFixed(n) => z[n] < cfg.z0[n] + 5 * uplift_per_step

\* The scenario has run 5 passes and diffusion has lowered a CORE node.
C3_Witness ==
    /\ Scenario
    /\ pc = "loop"
    /\ i = 5
    /\ \E n \in core_nodes : z[n] < cfg.z0[n] + 5 * uplift_per_step

\* C4: the accumulator holds the elevation lost to diffusion and fluvial
\* erosion in the logged passes and nothing of the uplift: between passes
\* it equals minus the summed changes the two stages made, at any uplift
\* rate, and the reported map is that sum as a rate.
C4_NoUpliftInAccumulator ==
    /\ pc \in {"loop", "uplift"} =>
          \A n \in Nodes : t_erode_dep[n] = (0 - dz_sum[n]) * RateScaleDen
    /\ pc = "done" =>
          \A n \in Nodes : t_erode_dep[n] = 0 - dz_sum[n]

\* A run with uplift has ended with a nonzero rate at a CORE node.
C4_Witness ==
    /\ pc = "done"
    /\ cfg.uplift_rate > 0
    /\ \E n \in core_nodes : t_erode_dep[n] # 0

\* C5: the rate map covers the last W = 100 passes of the run: no pass
\* before them changes the accumulator, and at the end the map times the
\* window's duration W * dt equals the elevation lost over those passes,
\* measured from the elevation at the start of the window to the final one
\* with the W uplift increments of CORE nodes taken out.
C5_TrailingWindow ==
    /\ (InLoop /\ i < LoopCount - W) => t_erode_dep = Zeros
    /\ (pc \in {"loop", "diffuse", "route", "erode"} /\ i = LoopCount - W) =>
          t_erode_dep = Zeros
    /\ pc = "done" =>
          \A n \in Nodes :
              t_erode_dep[n] * (W * dt) =
                  (z_win[n] - z[n] +
                      (IF n \in core_nodes THEN W * uplift_per_step ELSE 0)) * RateScaleDen

\* A run has ended with a nonzero rate somewhere.
C5_Witness ==
    /\ pc = "done"
    /\ \E n \in Nodes : t_erode_dep[n] # 0

\* C6: when section G is run again the accumulator starts from zero, and
\* the map the run reports is the loss of that run's own logged passes,
\* whatever the map of the run before was.
C6_ResetOnRerun ==
    /\ (run >= 2 /\ pc = "loop" /\ i = 0) => t_erode_dep = Zeros
    /\ (run >= 2 /\ pc = "done") =>
          \A n \in Nodes : t_erode_dep[n] = 0 - dz_sum[n]

\* A second run has ended after a first run that reported a nonzero map.
C6_Witness ==
    /\ run >= 2
    /\ pc = "done"
    /\ t_prev # Zeros

\* C7: no step changes the elevation of a FIXED_VALUE or CLOSED node, and
\* the uplift stage adds uplift_rate * dt to every CORE node.
C7_BoundaryElevationKept ==
    [][ /\ \A n \in Nodes \ core_nodes : z'[n] = z[n]
        /\ pc = "uplift" => \A n \in core_nodes : z'[n] = z[n] + cfg.uplift_rate * dt ]_vars

\* Passes have run, CORE nodes have moved and every other node is where it began.
C7_Witness ==
    /\ pc = "loop"
    /\ i >= 2
    /\ \E n \in core_nodes : z[n] # cfg.z0[n]
    /\ \A n \in Nodes \ core_nodes : z[n] = cfg.z0[n]

\* C8: when a stage fails, the elevation is the one the previous completed
\* pass left.
C8_FailedStepLeavesPrevious ==
    pc = "aborted" => z = z_start

RECURSIVE Follow(_, _, _)
Follow(rcv, n, k) == IF k = 0 THEN n ELSE Follow(rcv, rcv[n], k - 1)

\* Following receivers from n ends at a node that is its own receiver.
ReachesSink(rcv, n) ==
    LET e == Follow(rcv, n, NumNodes) IN rcv[e] = e

\* C9: after flow routing every receiver other than the node itself is a
\* valid neighbour strictly lower than the node, and following receivers
\* from any node ends at a self-receiver.
C9_Acyclic ==
    /\ \A n \in Nodes : ReachesSink(receiver, n)
    /\ pc = "erode" =>
          \A n \in Nodes :
              receiver[n] # n =>
                  /\ receiver[n] \in ValidNeighbors[n]
                  /\ z[receiver[n]] < z[n]
                  /\ \A m \in ValidNeighbors[n] : z[receiver[n]] <= z[m]

\* Flow has been routed over a field with two neighbouring CORE nodes of
\* equal elevation, one of which drains.
C9_Witness ==
    /\ pc = "erode"
    /\ \E n \in core_nodes : \E m \in core_nodes :
          /\ m \in ValidNeighbors[n]
          /\ z[m] = z[n]
          /\ receiver[n] # n

RECURSIVE SumOver(_, _)
SumOver(f, k) == IF k < 0 THEN 0 ELSE f[k] + SumOver(f, k - 1)

\* The sum of f over all nodes.
Total(f) == SumOver(f, NumNodes - 1)

OutletArea == [n \in Nodes |-> IF receiver[n] = n THEN area[n] ELSE 0]
DonatedTo(n) == [m \in Nodes |-> IF receiver[m] = n /\ m # n THEN area[m] ELSE 0]

\* C10: after flow routing the areas at the nodes that are their own
\* receiver sum to the area of all cells, every node's area is its own
\* cell plus the final areas of the nodes draining into it, and the
\* accumulation order is one of decreasing elevation.
C10_OutletAreaConserved ==
    pc = "erode" =>
        /\ Total(OutletArea) = Cardinality(OpenNodes) * cfg.dx * cfg.dx
        /\ \A n \in Nodes : area[n] = CellArea(n, cfg.dx) + Total(DonatedTo(n))
        /\ \A k \in 1 .. (Len(order) - 1) : z[order[k]] >= z[order[k + 1]]

\* Flow has been routed and every CORE node drains to one outlet.
C10_Witness ==
    /\ pc = "erode"
    /\ \E o \in fixed_nodes :
          area[o] = (Cardinality(core_nodes) + 1) * cfg.dx * cfg.dx

====
